---- MODULE Spec2Model ----
(***************************************************************************)
(* Model of the runner/provider orchestration layer of                     *)
(* google-maps-scraper: main's lifecycle (signal goroutine, HTTP server    *)
(* goroutine, runnerFactory, Run, Close, telemetry close, exit) and the    *)
(* HTTP job-ingestion handler (validate, CreateJob, Provider.Push).        *)
(***************************************************************************)
EXTENDS Integers, Sequences, FiniteSets, TLC

VARIABLES
    cfg,        \* cfg.RunMode, the configured run mode (an integer)
    mainPc,     \* position of main
    runner,     \* runnerInstance: "nil" or the constructor that built it
    factoryErr, \* the error runnerFactory returned
    runErr,     \* whether Run returned an error
    events,     \* lifecycle calls made by main, in program order
    exitCode,   \* process exit status, NoExit while the process is alive
    ctx,        \* the root context and its cancel function
    sigCount,   \* OS signals delivered to the process so far
    sigChan,    \* number of signals buffered in sigChan
    sigPc,      \* position of the signal goroutine
    srvPc,      \* position of the HTTP server goroutine
    handlers,   \* one record per CreateJob invocation
    queue,      \* the Provider's job queue
    db,         \* the database handle of sql.Open: "unopened", "open", "closed"
    defers,     \* main's deferred calls, in the order they were deferred
    closeCtx    \* state of the context Close was called with, "none" before

vars == <<cfg, mainPc, runner, factoryErr, runErr, events, exitCode, ctx,
          sigCount, sigChan, sigPc, srvPc, handlers, queue, db, defers, closeCtx>>

mainVars == <<cfg, mainPc, runner, factoryErr, runErr, events, exitCode, db, defers,
              closeCtx>>
auxVars == <<db, defers, closeCtx>>
sigVars == <<sigCount, sigChan, sigPc>>
httpVars == <<handlers, queue>>

----------------------------------------------------------------------------
(* Bounds of the model *)

MaxSignals == 2     \* OS signals delivered during one execution
MaxRequests == 2    \* CreateJob invocations during one execution
MaxStrLen == 2      \* length of query / language in the validation domain
Margin == 1         \* how far integers range outside the accepted intervals

(* Program constants *)

SigChanCap == 1
MinDepth == 0
MaxDepth == 10
MinZoom == 0
MaxZoom == 21
StatusCreated == 201
StatusBadRequest == 400
StatusMethodNotAllowed == 405
StatusInternalServerError == 500
NoExit == -1

RunModeFile == 1
RunModeDatabase == 2
RunModeDatabaseProduce == 3
RunModeInstallPlaywright == 4
RunModeWeb == 5
RunModeAwsLambda == 6
RunModeAwsLambdaInvoker == 7

EnumeratedRunModes == RunModeFile..RunModeAwsLambdaInvoker
RunModes == (RunModeFile - Margin)..(RunModeAwsLambdaInvoker + Margin)

----------------------------------------------------------------------------
(* The root context: context.WithCancel and its cancel function *)

NewContext == [cancelled |-> FALSE, doneCloses |-> 0, cancelCalls |-> 0]

\* cancel(): the first call cancels the context, later calls do nothing
Cancel(c) ==
    IF c.cancelled
    THEN [c EXCEPT !.cancelCalls = @ + 1]
    ELSE [cancelled |-> TRUE, doneCloses |-> c.doneCloses + 1,
          cancelCalls |-> c.cancelCalls + 1]

----------------------------------------------------------------------------
(* runnerFactory *)

NoError == [kind |-> "nil", value |-> 0]
ErrInvalidRunMode(mode) == [kind |-> "ErrInvalidRunMode", value |-> mode]
ErrConstructor(mode) == [kind |-> "constructor", value |-> mode]

\* variant of runnerFactory: the switch has no case for RunModeDatabaseProduce
ConstructorWithoutDatabaseProduce(mode) ==
    CASE mode = RunModeFile -> "filerunner.New"
      [] mode = RunModeDatabase -> "databaserunner.New"
      [] mode = RunModeInstallPlaywright -> "installplaywright.New"
      [] mode = RunModeWeb -> "webrunner.New"
      [] mode = RunModeAwsLambda -> "lambdaaws.New"
      [] mode = RunModeAwsLambdaInvoker -> "lambdaaws.NewInvoker"
      [] OTHER -> "nil"

\* the constructor a run mode is dispatched to
Constructor(mode) ==
    CASE mode = RunModeFile -> "filerunner.New"
      [] mode \in {RunModeDatabase, RunModeDatabaseProduce} -> "databaserunner.New"
      [] mode = RunModeInstallPlaywright -> "installplaywright.New"
      [] mode = RunModeWeb -> "webrunner.New"
      [] mode = RunModeAwsLambda -> "lambdaaws.New"
      [] mode = RunModeAwsLambdaInvoker -> "lambdaaws.NewInvoker"
      [] OTHER -> "nil"

\* variant of runnerFactory: the invalid-mode error does not carry the mode
runnerFactoryDropsMode(mode, newOk) ==
    IF Constructor(mode) = "nil"
    THEN [runner |-> "nil", err |-> ErrInvalidRunMode(0)]
    ELSE IF newOk
         THEN [runner |-> Constructor(mode), err |-> NoError]
         ELSE [runner |-> "nil", err |-> ErrConstructor(mode)]

\* newOk: whether the constructor the mode is dispatched to succeeds
runnerFactory(mode, newOk) ==
    IF Constructor(mode) = "nil"
    THEN [runner |-> "nil", err |-> ErrInvalidRunMode(mode)]
    ELSE IF newOk
         THEN [runner |-> Constructor(mode), err |-> NoError]
         ELSE [runner |-> "nil", err |-> ErrConstructor(mode)]

----------------------------------------------------------------------------
(* HTTP job ingestion: requests, validate, responses *)

Chars == {" ", "a"}
IsSpace(ch) == ch = " "

RECURSIVE TrimLeft(_)
TrimLeft(s) ==
    IF s # <<>> /\ IsSpace(Head(s)) THEN TrimLeft(Tail(s)) ELSE s

RECURSIVE TrimRight(_)
TrimRight(s) ==
    IF s # <<>> /\ IsSpace(s[Len(s)])
    THEN TrimRight(SubSeq(s, 1, Len(s) - 1))
    ELSE s

\* strings.TrimSpace on a string held as a sequence of characters
TrimSpace(s) == TrimRight(TrimLeft(s))

RECURSIVE Join(_, _)
\* strings.Join
Join(strs, sep) ==
    IF strs = <<>> THEN ""
    ELSE IF Len(strs) = 1 THEN strs[1]
    ELSE strs[1] \o sep \o Join(Tail(strs), sep)

\* variant of validate: returns at the first violated rule
validateFirstErrorOnly(r) ==
    IF TrimSpace(r.query) = <<>> THEN "validation failed: query is required"
    ELSE IF TrimSpace(r.language) = <<>> THEN "validation failed: language is required"
    ELSE IF r.maxDepth < MinDepth \/ r.maxDepth > MaxDepth
    THEN "validation failed: max_depth must be between 0 and 10"
    ELSE IF r.zoom < MinZoom \/ r.zoom > MaxZoom
    THEN "validation failed: zoom must be between 0 and 21"
    ELSE ""

\* CreateJobRequest.validate: the error text, "" for nil
validate(r) ==
    LET e1 == IF TrimSpace(r.query) = <<>>
              THEN <<"query is required">> ELSE <<>>
        e2 == IF TrimSpace(r.language) = <<>>
              THEN e1 \o <<"language is required">> ELSE e1
        e3 == IF r.maxDepth < MinDepth \/ r.maxDepth > MaxDepth
              THEN e2 \o <<"max_depth must be between 0 and 10">> ELSE e2
        errors == IF r.zoom < MinZoom \/ r.zoom > MaxZoom
                  THEN e3 \o <<"zoom must be between 0 and 21">> ELSE e3
    IN  IF Len(errors) > 0
        THEN "validation failed: " \o Join(errors, ", ")
        ELSE ""

\* uuid.New().String(): the n-th token generated by invocation h
NewUUID(h, n) == "uuid-" \o ToString(h) \o "-" \o ToString(n)

ZeroRequest ==
    [query |-> <<>>, language |-> <<>>, maxDepth |-> 0, extractEmail |-> FALSE,
     geoCoords |-> "", zoom |-> 0]

\* json.NewDecoder(r.Body).Decode(&req)
Decode(body) ==
    IF body.wellFormed
    THEN [err |-> FALSE, req |-> body.payload]
    ELSE [err |-> TRUE, req |-> ZeroRequest]

\* gmaps.NewGmapJob
NewGmapJob(id, language, query, maxDepth, extractEmail, geoCoords, zoom) ==
    [id |-> id, language |-> language, query |-> query, maxDepth |-> maxDepth,
     extractEmail |-> extractEmail, geoCoords |-> geoCoords, zoom |-> zoom]

NoJob == NewGmapJob("", <<>>, <<>>, 0, FALSE, "", 0)

NoResponse == [code |-> 0, jobID |-> "", status |-> "", message |-> "", requestID |-> ""]

\* JobHandler.respondWithError
respondWithError(code, message, requestID) ==
    [code |-> code, jobID |-> "", status |-> "error", message |-> message,
     requestID |-> requestID]

\* the 201 response of CreateJob
respondCreated(jobID, requestID) ==
    [code |-> StatusCreated, jobID |-> jobID, status |-> "created",
     message |-> "Job created successfully", requestID |-> requestID]

\* Provider.Push: adds the job to the queue, or fails and adds nothing
Push(q, job, ok) == IF ok THEN Append(q, job) ELSE q

IdleHandler ==
    [pc |-> "idle", method |-> "", body |-> [wellFormed |-> FALSE, payload |-> ZeroRequest],
     requestID |-> "", job |-> NoJob, pushCalls |-> 0, pushed |-> FALSE,
     resp |-> NoResponse]

----------------------------------------------------------------------------
(* Requests *)

RECURSIVE StrsOfLen(_)
StrsOfLen(n) ==
    IF n = 0 THEN {<<>>}
    ELSE {<<ch>> \o s : ch \in Chars, s \in StrsOfLen(n - 1)}

Strs == UNION {StrsOfLen(n) : n \in 0..MaxStrLen}

\* every payload of the validation domain
AllPayloads ==
    [query : Strs, language : Strs,
     maxDepth : (MinDepth - Margin)..(MaxDepth + Margin),
     extractEmail : {FALSE}, geoCoords : {""},
     zoom : (MinZoom - Margin)..(MaxZoom + Margin)]

ValidPayload ==
    [query |-> <<"a">>, language |-> <<"a">>, maxDepth |-> 3, extractEmail |-> TRUE,
     geoCoords |-> "40.7,-74.0", zoom |-> 15]

InvalidPayload ==
    [query |-> <<>>, language |-> <<"a">>, maxDepth |-> 3, extractEmail |-> FALSE,
     geoCoords |-> "", zoom |-> 30]

WellFormed(p) == [wellFormed |-> TRUE, payload |-> p]
Malformed == [wellFormed |-> FALSE, payload |-> ZeroRequest]

\* the requests clients send while the whole system runs
SysRequests ==
    { [method |-> "GET", body |-> WellFormed(ValidPayload)],
      [method |-> "POST", body |-> Malformed],
      [method |-> "POST", body |-> WellFormed(InvalidPayload)],
      [method |-> "POST", body |-> WellFormed(ValidPayload)] }

Methods == {"GET", "POST"}

\* the requests of the validation domain: every method with every body
AllRequests ==
    [method : Methods, body : {WellFormed(p) : p \in AllPayloads} \cup {Malformed}]

----------------------------------------------------------------------------
(* State after main has created the root context, installed signal.Notify and
   started the signal goroutine, and runner.ParseConfig has returned *)

Init ==
    /\ cfg \in RunModes
    /\ mainPc = "openDb"
    /\ runner = "nil"
    /\ factoryErr = NoError
    /\ runErr = FALSE
    /\ events = <<>>
    /\ exitCode = NoExit
    /\ ctx = NewContext
    /\ sigCount = 0
    /\ sigChan = 0
    /\ sigPc = "waiting"
    /\ srvPc = "unstarted"
    /\ handlers = [h \in 1..MaxRequests |-> IdleHandler]
    /\ queue = <<>>
    /\ db = "unopened"
    /\ defers = <<>>
    /\ closeCtx = "none"

Exited == mainPc = "exited"

----------------------------------------------------------------------------
(* OS signals and the signal goroutine *)

\* signal.Notify delivery: a non-blocking send on sigChan
SignalArrive ==
    /\ ~Exited
    /\ sigCount < MaxSignals
    /\ sigCount' = sigCount + 1
    /\ sigChan' = IF sigChan < SigChanCap THEN sigChan + 1 ELSE sigChan
    /\ UNCHANGED <<mainVars, ctx, sigPc, srvPc, httpVars>>

\* variant of the signal goroutine: receives the signal without calling cancel()
SignalGoroutineNoCancel ==
    /\ ~Exited
    /\ sigPc = "waiting"
    /\ sigChan > 0
    /\ sigChan' = sigChan - 1
    /\ sigPc' = "done"
    /\ UNCHANGED <<mainVars, ctx, sigCount, srvPc, httpVars>>

\* go func() { <-sigChan; log.Println(...); cancel() }()
SignalGoroutine ==
    /\ ~Exited
    /\ sigPc = "waiting"
    /\ sigChan > 0
    /\ sigChan' = sigChan - 1
    /\ ctx' = Cancel(ctx)
    /\ sigPc' = "done"
    /\ UNCHANGED <<mainVars, sigCount, srvPc, httpVars>>

----------------------------------------------------------------------------
(* The HTTP server goroutine *)

\* srv.Start(): ListenAndServe is listening
SrvListen ==
    /\ ~Exited
    /\ srvPc = "spawned"
    /\ srvPc' = "serving"
    /\ UNCHANGED <<mainVars, ctx, sigVars, httpVars>>

\* variant of the server goroutine: a start error ends the process (log.Fatal)
SrvErrorFatal ==
    /\ ~Exited
    /\ srvPc \in {"spawned", "serving"}
    /\ srvPc' = "done"
    /\ mainPc' = "exited"
    /\ events' = Append(events, "Fatal")
    /\ exitCode' = 1
    /\ UNCHANGED <<auxVars, cfg, runner, factoryErr, runErr, ctx, sigVars, httpVars>>

\* srv.Start() returned an error, never ErrServerClosed: log and cancel()
SrvError ==
    /\ ~Exited
    /\ srvPc \in {"spawned", "serving"}
    /\ srvPc' = "done"
    /\ ctx' = Cancel(ctx)
    /\ UNCHANGED <<mainVars, sigVars, httpVars>>

----------------------------------------------------------------------------
(* main *)

\* defer logger.Sync(); sql.Open: on error log.Fatal exits with status 1, which
\* runs no deferred call; otherwise defer db.Close()
MainOpenDb(ok) ==
    /\ mainPc = "openDb"
    /\ IF ok
       THEN /\ mainPc' = "startServer"
            /\ db' = "open"
            /\ defers' = <<"logger.Sync", "db.Close">>
            /\ UNCHANGED <<events, exitCode>>
       ELSE /\ mainPc' = "exited"
            /\ defers' = <<"logger.Sync">>
            /\ events' = Append(events, "Fatal")
            /\ exitCode' = 1
            /\ UNCHANGED db
    /\ UNCHANGED <<closeCtx, cfg, runner, factoryErr, runErr, ctx, sigVars, srvPc, httpVars>>

\* provider, job handler, go func() { srv := server.New(...); srv.Start() ... }()
MainStartServer ==
    /\ mainPc = "startServer"
    /\ mainPc' = "factory"
    /\ srvPc' = "spawned"
    /\ UNCHANGED <<auxVars, cfg, runner, factoryErr, runErr, events, exitCode, ctx, sigVars,
                   httpVars>>

\* runnerInstance, err := runnerFactory(cfg)
MainFactory(newOk) ==
    /\ mainPc = "factory"
    /\ LET r == runnerFactory(cfg, newOk)
       IN  /\ runner' = r.runner
           /\ factoryErr' = r.err
           /\ mainPc' = IF r.err # NoError THEN "factoryErrCancel" ELSE "run"
    /\ UNCHANGED <<auxVars, cfg, runErr, events, exitCode, ctx, sigVars, srvPc, httpVars>>

\* err != nil: cancel()
MainFactoryErrCancel ==
    /\ mainPc = "factoryErrCancel"
    /\ ctx' = Cancel(ctx)
    /\ events' = Append(events, "cancel")
    /\ mainPc' = "factoryErrTelemetry"
    /\ UNCHANGED <<auxVars, cfg, runner, factoryErr, runErr, exitCode, sigVars, srvPc, httpVars>>

\* variant of the factory-error path: the telemetry sink is not closed
MainFactoryErrTelemetryForgotten ==
    /\ mainPc = "factoryErrTelemetry"
    /\ events' = Append(events, "Stderr")
    /\ mainPc' = "factoryErrExit"
    /\ UNCHANGED <<auxVars, cfg, runner, factoryErr, runErr, exitCode, ctx, sigVars, srvPc,
                   httpVars>>

\* os.Stderr.WriteString(err.Error()); runner.Telemetry().Close()
MainFactoryErrTelemetry ==
    /\ mainPc = "factoryErrTelemetry"
    /\ events' = events \o <<"Stderr", "TelemetryClose">>
    /\ mainPc' = "factoryErrExit"
    /\ UNCHANGED <<auxVars, cfg, runner, factoryErr, runErr, exitCode, ctx, sigVars, srvPc,
                   httpVars>>

\* os.Exit(1)
MainFactoryErrExit ==
    /\ mainPc = "factoryErrExit"
    /\ events' = Append(events, "Exit")
    /\ exitCode' = 1
    /\ mainPc' = "exited"
    /\ UNCHANGED <<auxVars, cfg, runner, factoryErr, runErr, ctx, sigVars, srvPc, httpVars>>

\* runnerInstance.Run(ctx) is called
MainRun ==
    /\ mainPc = "run"
    /\ events' = Append(events, "Run")
    /\ mainPc' = "running"
    /\ UNCHANGED <<auxVars, cfg, runner, factoryErr, runErr, exitCode, ctx, sigVars, srvPc,
                   httpVars>>

RunReturns(err) ==
    /\ mainPc = "running"
    /\ runErr' = err
    /\ events' = Append(events, "RunReturned")
    /\ mainPc' = "close"
    /\ UNCHANGED <<auxVars, cfg, runner, factoryErr, exitCode, ctx, sigVars, srvPc, httpVars>>

\* Run ends on its own account, with or without an error
RunnerCompletes(err) ==
    /\ mainPc = "running"
    /\ RunReturns(err)

\* Run observes the cancelled context and returns
RunnerObservesCancel(err) ==
    /\ ctx.cancelled
    /\ RunReturns(err)

\* variant of main: Close is given a fresh context instead of the root context
CloseArgFresh(c) == "active"

\* the context main hands to Close: the root context itself, as Close sees it
CloseArg(c) == IF c.cancelled THEN "cancelled" ELSE "active"

\* variant of main: the error branch falls through to the second Close
MainCloseTwiceOnError ==
    /\ mainPc = "close"
    /\ events' = IF runErr THEN events \o <<"Stderr", "Close", "Close">>
                           ELSE Append(events, "Close")
    /\ mainPc' = "telemetry"
    /\ closeCtx' = CloseArg(ctx)
    /\ UNCHANGED <<db, defers, cfg, runner, factoryErr, runErr, exitCode, ctx, sigVars, srvPc,
                   httpVars>>

\* variant of main: the error branch exits without Close
MainCloseOnlyOnSuccess ==
    /\ mainPc = "close"
    /\ events' = IF runErr THEN Append(events, "Stderr") ELSE Append(events, "Close")
    /\ mainPc' = "telemetry"
    /\ closeCtx' = IF runErr THEN closeCtx ELSE CloseArg(ctx)
    /\ UNCHANGED <<db, defers, cfg, runner, factoryErr, runErr, exitCode, ctx, sigVars, srvPc,
                   httpVars>>

\* variant of main: Close is never called
MainCloseSkipped ==
    /\ mainPc = "close"
    /\ events' = IF runErr THEN Append(events, "Stderr") ELSE events
    /\ mainPc' = "telemetry"
    /\ closeCtx' = closeCtx
    /\ UNCHANGED <<db, defers, cfg, runner, factoryErr, runErr, exitCode, ctx, sigVars, srvPc,
                   httpVars>>

\* (on error: os.Stderr.WriteString(err.Error());) _ = runnerInstance.Close(ctx)
MainClose ==
    /\ mainPc = "close"
    /\ events' = IF runErr THEN events \o <<"Stderr", "Close">>
                           ELSE Append(events, "Close")
    /\ mainPc' = "telemetry"
    /\ closeCtx' = CloseArg(ctx)
    /\ UNCHANGED <<db, defers, cfg, runner, factoryErr, runErr, exitCode, ctx, sigVars, srvPc,
                   httpVars>>

\* runner.Telemetry().Close()
MainTelemetryClose ==
    /\ mainPc = "telemetry"
    /\ events' = Append(events, "TelemetryClose")
    /\ mainPc' = "cancel"
    /\ UNCHANGED <<auxVars, cfg, runner, factoryErr, runErr, exitCode, ctx, sigVars, srvPc,
                   httpVars>>

\* cancel()
MainCancel ==
    /\ mainPc = "cancel"
    /\ ctx' = Cancel(ctx)
    /\ events' = Append(events, "cancel")
    /\ mainPc' = "exit"
    /\ UNCHANGED <<auxVars, cfg, runner, factoryErr, runErr, exitCode, sigVars, srvPc, httpVars>>

\* variant of main: os.Exit(0) on both branches
ExitStatusAlwaysZero(err) == 0

\* the status main passes to os.Exit after Run
ExitStatus(err) == IF err THEN 1 ELSE 0

\* variant of main: main returns instead of calling os.Exit, which runs the
\* deferred calls
MainExitReturns ==
    /\ mainPc = "exit"
    /\ events' = Append(events, "Return")
    /\ exitCode' = 0
    /\ mainPc' = "exited"
    /\ db' = "closed"
    /\ defers' = <<>>
    /\ UNCHANGED <<closeCtx, cfg, runner, factoryErr, runErr, ctx, sigVars, srvPc, httpVars>>

\* os.Exit(1) after a failed Run, os.Exit(0) otherwise
MainExit ==
    /\ mainPc = "exit"
    /\ events' = Append(events, "Exit")
    /\ exitCode' = ExitStatus(runErr)
    /\ mainPc' = "exited"
    /\ UNCHANGED <<auxVars, cfg, runner, factoryErr, runErr, ctx, sigVars, srvPc, httpVars>>

----------------------------------------------------------------------------
(* JobHandler.CreateJob *)

\* variant of CreateJob: the method is not checked
CreateJobRejectAnyMethod(req, requestID) ==
    IF Decode(req.body).err
    THEN respondWithError(StatusBadRequest, "Invalid request body", requestID)
    ELSE IF validate(Decode(req.body).req) # ""
    THEN respondWithError(StatusBadRequest, validate(Decode(req.body).req), requestID)
    ELSE NoResponse

\* variant of CreateJob: the body is decoded before the method is checked
CreateJobRejectDecodeFirst(req, requestID) ==
    IF Decode(req.body).err
    THEN respondWithError(StatusBadRequest, "Invalid request body", requestID)
    ELSE IF req.method # "POST"
    THEN respondWithError(StatusMethodNotAllowed, "Method not allowed", requestID)
    ELSE IF validate(Decode(req.body).req) # ""
    THEN respondWithError(StatusBadRequest, validate(Decode(req.body).req), requestID)
    ELSE NoResponse

\* the checks before a job is created: the error response of the first check
\* that fails, NoResponse when all pass
CreateJobReject(req, requestID) ==
    IF req.method # "POST"
    THEN respondWithError(StatusMethodNotAllowed, "Method not allowed", requestID)
    ELSE IF Decode(req.body).err
    THEN respondWithError(StatusBadRequest, "Invalid request body", requestID)
    ELSE IF validate(Decode(req.body).req) # ""
    THEN respondWithError(StatusBadRequest, validate(Decode(req.body).req), requestID)
    ELSE NoResponse

\* variant of CreateJob: the error of Push is ignored
PushResponseAlwaysCreated(ok, jobID, requestID) == respondCreated(jobID, requestID)

\* the response after Provider.Push returned
PushResponse(ok, jobID, requestID) ==
    IF ~ok
    THEN respondWithError(StatusInternalServerError, "Failed to create job", requestID)
    ELSE respondCreated(jobID, requestID)

\* variant of CreateJob: the job id is derived from the payload
NewJobIDFromPayload(h, r) == "job-" \o ToString(r.maxDepth) \o "-" \o ToString(r.zoom)

\* variant of CreateJob: the request id is reused as the job id
NewJobIDReusesRequestID(h, r) == NewUUID(h, 1)

\* jobID := uuid.New().String(), the second token of invocation h
NewJobID(h, r) == NewUUID(h, 2)

\* invocation h receives a request of reqs: request id, method check, decoding,
\* validation, job id and job construction
CreateJobBegin(h, reqs) ==
    /\ ~Exited
    /\ srvPc = "serving"
    /\ handlers[h].pc = "idle"
    /\ \A k \in 1..(h - 1) : handlers[k].pc # "idle"
    /\ \E req \in reqs :
         LET requestID == NewUUID(h, 1)
             rejected == CreateJobReject(req, requestID)
             r == Decode(req.body).req
         IN  handlers' = [handlers EXCEPT ![h] =
                 IF rejected # NoResponse
                 THEN [@ EXCEPT !.pc = "done", !.method = req.method,
                                !.body = req.body, !.requestID = requestID,
                                !.resp = rejected]
                 ELSE [@ EXCEPT !.pc = "push", !.method = req.method,
                                !.body = req.body, !.requestID = requestID,
                                !.job = NewGmapJob(NewJobID(h, r), r.language, r.query,
                                                   r.maxDepth, r.extractEmail,
                                                   r.geoCoords, r.zoom)]]
    /\ UNCHANGED <<mainVars, ctx, sigVars, srvPc, queue>>

\* variant of CreateJob: a failed Push is tried once more
CreateJobPushRetries(h, ok) ==
    /\ ~Exited
    /\ handlers[h].pc = "push"
    /\ queue' = Push(queue, handlers[h].job, ok)
    /\ handlers' = [handlers EXCEPT ![h] =
           [@ EXCEPT !.pc = IF ok \/ handlers[h].pushCalls >= 1 THEN "done" ELSE "push",
                     !.pushCalls = @ + 1, !.pushed = ok,
                     !.resp = IF ok \/ handlers[h].pushCalls >= 1
                              THEN PushResponse(ok, handlers[h].job.id,
                                                handlers[h].requestID)
                              ELSE NoResponse]]
    /\ UNCHANGED <<mainVars, ctx, sigVars, srvPc>>

\* variant of the wiring: the request context is derived from the root context
RequestContextFromRoot(c) == c

\* r.Context(): the context the HTTP server creates for each request; the
\* server is given no base context, so it is no child of the root context c
RequestContext(c) == NewContext

\* h.provider.Push(r.Context(), job) returns, and the handler responds; a Push
\* whose context is cancelled does not succeed
CreateJobPush(h, ok) ==
    /\ ~Exited
    /\ handlers[h].pc = "push"
    /\ ok => ~RequestContext(ctx).cancelled
    /\ queue' = Push(queue, handlers[h].job, ok)
    /\ handlers' = [handlers EXCEPT ![h] =
           [@ EXCEPT !.pc = "done", !.pushCalls = @ + 1, !.pushed = ok,
                     !.resp = PushResponse(ok, handlers[h].job.id,
                                           handlers[h].requestID)]]
    /\ UNCHANGED <<mainVars, ctx, sigVars, srvPc>>

----------------------------------------------------------------------------
(* Specifications *)

\* the next statement of main, which is sequential: at most one is enabled
MainStep ==
    \/ \E ok \in BOOLEAN : MainOpenDb(ok)
    \/ MainStartServer
    \/ \E newOk \in BOOLEAN : MainFactory(newOk)
    \/ MainFactoryErrCancel
    \/ MainFactoryErrTelemetry
    \/ MainFactoryErrExit
    \/ MainRun
    \/ MainClose
    \/ MainTelemetryClose
    \/ MainCancel
    \/ MainExit

Lifecycle ==
    \/ SignalArrive
    \/ SignalGoroutine
    \/ SrvListen
    \/ SrvError
    \/ MainStep
    \/ \E err \in BOOLEAN : RunnerCompletes(err)
    \/ \E err \in BOOLEAN : RunnerObservesCancel(err)

Next ==
    \/ Lifecycle
    \/ \E h \in 1..MaxRequests : CreateJobBegin(h, SysRequests)
    \/ \E h \in 1..MaxRequests, ok \in BOOLEAN : CreateJobPush(h, ok)

Spec == Init /\ [][Next]_vars

\* main and the goroutines are scheduled while the process lives; a Runner that
\* honours cancellation returns once the context is cancelled.  Signals, server
\* errors, requests and a Run that ends by itself may or may not happen.
Fairness ==
    /\ WF_vars(MainStep)
    /\ WF_vars(SignalGoroutine)
    /\ WF_vars(\E err \in BOOLEAN : RunnerObservesCancel(err))

\* the handlers change no variable of main, of the signal goroutine or of the
\* root context, so the fair executions of the lifecycle are explored with one
\* request in flight
NextFair ==
    \/ Lifecycle
    \/ CreateJobBegin(1, SysRequests)
    \/ \E ok \in BOOLEAN : CreateJobPush(1, ok)

FairSpec == Init /\ [][NextFair]_vars /\ Fairness

\* the validation domain: one invocation of the handler on every payload
InitValidate == Init /\ cfg = RunModeWeb

NextValidate ==
    \/ \E ok \in BOOLEAN : MainOpenDb(ok)
    \/ MainStartServer
    \/ SrvListen
    \/ CreateJobBegin(1, AllRequests)
    \/ \E ok \in BOOLEAN : CreateJobPush(1, ok)

ValidateSpec == InitValidate /\ [][NextValidate]_vars

\* the executions in which the clients send their requests only after the root
\* context has been cancelled
NextLate ==
    \/ Lifecycle
    \/ ctx.cancelled /\ \E h \in 1..MaxRequests : CreateJobBegin(h, SysRequests)
    \/ \E h \in 1..MaxRequests, ok \in BOOLEAN : CreateJobPush(h, ok)

LateSpec == Init /\ [][NextLate]_vars

----------------------------------------------------------------------------
(* Observations on the lifecycle calls of main *)

Count(e) == Cardinality({i \in DOMAIN events : events[i] = e})

\* every occurrence of a precedes every occurrence of b
Precedes(a, b) ==
    \A i, j \in DOMAIN events : events[i] = a /\ events[j] = b => i < j

ExitedByFatal == Exited /\ events = <<"Fatal">>
ExitedByOsExit == Exited /\ ~ExitedByFatal

FactoryReturned == mainPc \notin {"openDb", "startServer", "factory"} /\ ~ExitedByFatal
FactoryReturnedRunner == FactoryReturned /\ factoryErr = NoError
RunReturned == Count("RunReturned") = 1

\* the lifecycle state of the Runner, read off main's calls
RunnerState ==
    IF ~FactoryReturnedRunner THEN "None"
    ELSE IF Count("Close") > 0 THEN "Closed"
    ELSE IF RunReturned THEN (IF runErr THEN "Failed" ELSE "Completed")
    ELSE IF Count("Run") > 0 THEN "Running"
    ELSE "Created"

RunnerTransitions ==
    { <<"None", "Created">>, <<"Created", "Running">>, <<"Running", "Completed">>,
      <<"Running", "Failed">>, <<"Completed", "Closed">>, <<"Failed", "Closed">> }

----------------------------------------------------------------------------
(* Claims *)

\* C1: whenever the factory returned a Runner, Run is invoked at most once, Close
\* is invoked at most once and only after Run has returned, and at process exit
\* Close has been invoked exactly once, whether Run returned nil or an error.
C1_RunOnceCloseOnceAfterRun ==
    FactoryReturnedRunner =>
        /\ Count("Run") <= 1
        /\ Count("Close") <= 1
        /\ Precedes("Run", "RunReturned")
        /\ Precedes("RunReturned", "Close")
        /\ Count("Close") = 1 => RunReturned
        /\ Exited => Count("Run") = 1 /\ Count("Close") = 1

C1_Witness ==
    /\ Exited
    /\ FactoryReturnedRunner
    /\ runErr
    /\ Count("Close") = 1

\* C2 (as claimed): on every exit path the telemetry sink is closed and that
\* close is the step right before the exit, after Run and Close.
C2_TelemetryCloseIsLastStep ==
    Exited =>
        /\ Count("TelemetryClose") = 1
        /\ Len(events) >= 2
        /\ events[Len(events)] = "Exit"
        /\ events[Len(events) - 1] = "TelemetryClose"
        /\ Precedes("Run", "Close")
        /\ Precedes("Close", "TelemetryClose")

\* C2 (amended): each exit path makes exactly these calls.  After Run the root
\* context is cancelled between the telemetry close and the exit; after a factory
\* failure the telemetry close is the last step before the exit; log.Fatal on a
\* database-open failure exits without closing the telemetry sink.
C2_ExitPaths ==
    Exited =>
        IF mainPc # "exited" THEN FALSE
        ELSE IF events[Len(events)] = "Fatal" THEN events = <<"Fatal">>
        ELSE IF factoryErr # NoError
        THEN events = <<"cancel", "Stderr", "TelemetryClose", "Exit">>
        ELSE IF runErr
        THEN events = <<"Run", "RunReturned", "Stderr", "Close", "TelemetryClose",
                        "cancel", "Exit">>
        ELSE events = <<"Run", "RunReturned", "Close", "TelemetryClose", "cancel",
                        "Exit">>

C2_Witness ==
    /\ Exited
    /\ FactoryReturnedRunner
    /\ ~runErr
    /\ Count("TelemetryClose") = 1
    /\ events[Len(events) - 1] = "cancel"

\* C3: the exit status is 0 only if Run returned without error; after a factory
\* failure or a failed Run it is 1, and after a failed Run both Close and the
\* telemetry close came before the exit.
C3_ExitStatus ==
    /\ ~Exited => exitCode = NoExit
    /\ Exited =>
        /\ exitCode \in {0, 1}
        /\ exitCode = 0 => RunReturned /\ ~runErr
        /\ FactoryReturned /\ factoryErr # NoError => exitCode = 1
        /\ RunReturned /\ runErr =>
              /\ exitCode = 1
              /\ Count("Close") = 1
              /\ Count("TelemetryClose") = 1
              /\ Precedes("Close", "Exit")
              /\ Precedes("TelemetryClose", "Exit")

C3_Witness ==
    /\ Exited
    /\ RunReturned
    /\ runErr
    /\ exitCode = 1

\* C4: with a run mode outside the enumeration, runnerFactory returns
\* ErrInvalidRunMode carrying that mode and no Runner; neither Run nor Close is
\* ever invoked and the process exits with status 1.
C4_InvalidRunMode ==
    cfg \notin EnumeratedRunModes /\ FactoryReturned =>
        /\ factoryErr = ErrInvalidRunMode(cfg)
        /\ runner = "nil"
        /\ Count("Run") = 0
        /\ Count("Close") = 0
        /\ mainPc \in {"factoryErrCancel", "factoryErrTelemetry", "factoryErrExit",
                       "exited"}
        /\ Exited => exitCode = 1

C4_Witness ==
    /\ Exited
    /\ cfg \notin EnumeratedRunModes
    /\ cfg # 0
    /\ factoryErr.kind = "ErrInvalidRunMode"
    /\ factoryErr.value = cfg
    /\ exitCode = 1

\* C5 (as claimed): no execution skips Closed, also when the factory fails to
\* construct the Runner.
C5_ClosedNeverSkipped ==
    ExitedByOsExit /\ (factoryErr = NoError \/ factoryErr.kind = "constructor") =>
        Count("Close") = 1

\* C5 (amended): the Runner's state moves only along Created -> Running ->
\* {Completed, Failed} -> Closed; when the factory returned a Runner the process
\* exits with the Runner Closed, after a successful and after a failed Run; when
\* the factory fails no Runner exists and no Close is performed.
C5_RunnerLifecycle ==
    /\ [](Exited /\ FactoryReturnedRunner => RunnerState = "Closed")
    /\ [](FactoryReturned /\ factoryErr # NoError =>
             runner = "nil" /\ RunnerState = "None" /\ Count("Close") = 0)
    /\ [][RunnerState' # RunnerState =>
             <<RunnerState, RunnerState'>> \in RunnerTransitions]_vars

C5_Witness ==
    /\ Exited
    /\ factoryErr.kind = "constructor"
    /\ Count("Close") = 0
    /\ exitCode = 1

\* C6: once the root context is cancelled while Run is in progress, a Runner
\* that honours cancellation returns, Close is then invoked exactly once and the
\* process exits.
C6_CancelDuringRun ==
    (mainPc = "running" /\ ctx.cancelled) ~>
        (Exited /\ RunReturned /\ Count("Close") = 1 /\ Precedes("RunReturned", "Close"))

C6_Witness ==
    /\ mainPc = "running"
    /\ ctx.cancelled
    /\ sigPc = "done"
    /\ ctx.cancelCalls = 1

\* C7 (as claimed): the root context is cancelled at most once and never
\* reactivated, a second signal never blocks its sender nor cancels again, and
\* a process that has received a signal has its context cancelled.
C7_FirstSignalAlwaysCancels ==
    /\ ctx.doneCloses <= 1
    /\ ctx.cancelled <=> ctx.doneCloses = 1
    /\ sigChan <= SigChanCap
    /\ ~Exited /\ sigCount < MaxSignals => ENABLED SignalArrive
    /\ Exited /\ sigCount >= 1 => ctx.cancelled

\* C7 (amended): the root context is cancelled at most once and never
\* reactivated under any interleaving of the cancel sites; a further signal never
\* blocks its sender and has no further cancellation effect; the first signal
\* leads to the context being cancelled unless the process exits first through
\* log.Fatal on a database-open failure.
C7_SingleShotCancellation ==
    /\ [](ctx.doneCloses <= 1 /\ (ctx.cancelled <=> ctx.doneCloses = 1))
    /\ [][ctx.cancelled => ctx'.cancelled /\ ctx'.doneCloses = ctx.doneCloses]_vars
    /\ [](sigChan <= SigChanCap)
    /\ [](~Exited /\ sigCount < MaxSignals => ENABLED SignalArrive)
    /\ [](sigPc = "done" => ctx.cancelled)
    /\ (sigCount >= 1) ~> (ctx.cancelled \/ ExitedByFatal)

C7_Witness ==
    /\ sigCount = 2
    /\ sigPc = "done"
    /\ sigChan = 1
    /\ ctx.cancelCalls >= 2
    /\ ctx.doneCloses = 1

\* C8 (as claimed): the HTTP server observes the cancellation of the root
\* context: once the context is cancelled no further request is taken up, and a
\* process that exits with the context cancelled has stopped serving.
C8_ServerStopsOnCancel ==
    /\ [][ctx.cancelled =>
             \A h \in 1..MaxRequests :
                 handlers[h].pc = "idle" => handlers'[h].pc = "idle"]_vars
    /\ [](Exited /\ ctx.cancelled => srvPc # "serving")

\* the four validation rules, in the order they are checked
AllSpaces(str) == \A i \in DOMAIN str : IsSpace(str[i])

RuleMessages ==
    << "query is required", "language is required",
       "max_depth must be between 0 and 10", "zoom must be between 0 and 21" >>

RuleViolated(p, i) ==
    CASE i = 1 -> AllSpaces(p.query)
      [] i = 2 -> AllSpaces(p.language)
      [] i = 3 -> p.maxDepth \notin 0..10
      [] i = 4 -> p.zoom \notin 0..21

RECURSIVE ViolatedMessages(_, _)
\* the messages of the rules i..4 that p violates, in rule order
ViolatedMessages(p, i) ==
    IF i > Len(RuleMessages) THEN <<>>
    ELSE (IF RuleViolated(p, i) THEN <<RuleMessages[i]>> ELSE <<>>)
         \o ViolatedMessages(p, i + 1)

RECURSIVE CommaSeparated(_)
CommaSeparated(msgs) ==
    IF Len(msgs) = 1 THEN msgs[1]
    ELSE msgs[1] \o ", " \o CommaSeparated(Tail(msgs))

\* C9: for every decoded request validate fails iff at least one of the four
\* rules is violated (0, 10 and 21 are accepted), and then the response is 400
\* with "validation failed: " and the messages of exactly the violated rules, in
\* the order query, language, max_depth, zoom, joined by ", ".
C9_ValidateAllRules ==
    \A h \in 1..MaxRequests :
        LET hd == handlers[h]
            p == hd.body.payload
            msgs == ViolatedMessages(p, 1)
        IN  hd.pc # "idle" /\ hd.method = "POST" /\ hd.body.wellFormed =>
              /\ validate(p) # "" <=> msgs # <<>>
              /\ msgs # <<>> =>
                    /\ hd.pc = "done"
                    /\ hd.resp.code = 400
                    /\ hd.resp.status = "error"
                    /\ hd.resp.message = "validation failed: " \o CommaSeparated(msgs)
              /\ msgs = <<>> =>
                    /\ hd.job.id # ""
                    /\ hd.resp.code # 400

C9_Witness ==
    /\ handlers[1].pc = "done"
    /\ handlers[1].body.payload.maxDepth = 10
    /\ handlers[1].body.payload.zoom = 22
    /\ handlers[1].body.payload.language # <<>>
    /\ handlers[1].resp.code = 400
    /\ handlers[1].resp.message
         = "validation failed: query is required, zoom must be between 0 and 21"

\* C10: when Push returns an error the response is 500 with status "error", the
\* request id and an empty job_id, the queue holds no job of that invocation,
\* and no 201 response is produced for a job whose Push failed.
C10_PushFailure ==
    \A h \in 1..MaxRequests :
        LET hd == handlers[h]
        IN  /\ hd.pc = "done" /\ hd.job.id # "" /\ ~hd.pushed =>
                /\ hd.resp.code = 500
                /\ hd.resp.status = "error"
                /\ hd.resp.requestID = hd.requestID
                /\ hd.resp.requestID # ""
                /\ hd.resp.jobID = ""
                /\ \A i \in DOMAIN queue : queue[i].id # hd.job.id
            /\ hd.resp.code = 201 => hd.pushed

C10_Witness ==
    \E h \in 1..MaxRequests :
        /\ handlers[h].pc = "done"
        /\ handlers[h].job.id # ""
        /\ ~handlers[h].pushed
        /\ handlers[h].resp.code = 500
        /\ Len(queue) = 1

\* the job CreateJob builds from a decoded payload p under the id jobID
JobOf(jobID, p) ==
    NewGmapJob(jobID, p.language, p.query, p.maxDepth, p.extractEmail,
               p.geoCoords, p.zoom)

\* C11: an invocation answers 201 exactly when the method is POST, the body
\* decoded, no validation rule is violated and Push returned nil; the 201
\* response has status "created", the request id of the invocation and the id of
\* the one job that was pushed, which is built from the payload; and every queued
\* job belongs to exactly one 201 response.
C11_CreatedIffAllPassed ==
    /\ \A h \in 1..MaxRequests :
           LET hd == handlers[h]
               passed == /\ hd.method = "POST"
                         /\ hd.body.wellFormed
                         /\ ViolatedMessages(hd.body.payload, 1) = <<>>
                         /\ hd.pushed
           IN  /\ hd.pc # "done" => hd.resp = NoResponse
               /\ hd.pc = "done" => (hd.resp.code = StatusCreated <=> passed)
               /\ hd.resp.code = StatusCreated =>
                      /\ hd.resp.status = "created"
                      /\ hd.resp.requestID = hd.requestID
                      /\ hd.resp.requestID # ""
                      /\ hd.resp.jobID # ""
                      /\ hd.pushCalls = 1
                      /\ Cardinality({i \in DOMAIN queue :
                                        queue[i].id = hd.resp.jobID}) = 1
                      /\ \E i \in DOMAIN queue :
                             queue[i] = JobOf(hd.resp.jobID, hd.body.payload)
    /\ \A i \in DOMAIN queue :
           Cardinality({h \in 1..MaxRequests :
                          /\ handlers[h].resp.code = StatusCreated
                          /\ handlers[h].resp.jobID = queue[i].id}) = 1

C11_Witness ==
    /\ handlers[1].pc = "done"
    /\ handlers[1].method = "POST"
    /\ handlers[1].resp.code = StatusCreated
    /\ handlers[1].resp.status = "created"
    /\ handlers[2].pc = "done"
    /\ handlers[2].method = "POST"
    /\ handlers[2].body = handlers[1].body
    /\ ~handlers[2].pushed
    /\ handlers[2].resp.code = StatusInternalServerError
    /\ Len(queue) = 1
    /\ queue[1].id = handlers[1].resp.jobID

RejectCodes == {StatusMethodNotAllowed, StatusBadRequest}

\* C12: an invocation answered 405 or 400 has not called Push and has built no
\* job, the step that produces such an answer leaves the queue, the root
\* context, main (with the Runner), the signal goroutine and the server as they
\* were, and no invocation calls Push more than once.
C12_RejectedChangesNothing ==
    /\ [](\A h \in 1..MaxRequests :
            /\ handlers[h].pushCalls <= 1
            /\ handlers[h].resp.code \in RejectCodes =>
                   /\ handlers[h].pushCalls = 0
                   /\ ~handlers[h].pushed
                   /\ handlers[h].job = NoJob
                   /\ \A i \in DOMAIN queue : queue[i].id # NewJobID(h, ZeroRequest))
    /\ [][\A h \in 1..MaxRequests :
            /\ handlers[h].resp.code \notin RejectCodes
            /\ handlers'[h].resp.code \in RejectCodes
            => /\ UNCHANGED <<queue, ctx, mainVars, sigVars, srvPc>>
               /\ RunnerState' = RunnerState]_vars

C12_Witness ==
    /\ RunnerState = "Running"
    /\ ~ctx.cancelled
    /\ handlers[1].pc = "done"
    /\ handlers[1].resp.code = StatusMethodNotAllowed
    /\ handlers[2].pc = "done"
    /\ handlers[2].resp.code = StatusBadRequest
    /\ handlers[1].pushCalls + handlers[2].pushCalls = 0
    /\ queue = <<>>

\* the invocations that carried a valid payload and whose Push succeeded
Created == {h \in 1..MaxRequests : handlers[h].pc = "done" /\ handlers[h].pushed}

\* C13: when all the invocations overlap, each with a valid payload and a
\* succeeding (atomic) Push, every one is answered 201, the job ids returned
\* are pairwise distinct, and the queue holds exactly one job per invocation,
\* whatever the order in which the Push calls took effect.
C13_ConcurrentCreates ==
    Created = 1..MaxRequests =>
        /\ \A h \in Created : handlers[h].resp.code = StatusCreated
        /\ \A g, h \in Created :
               g # h => handlers[g].resp.jobID # handlers[h].resp.jobID
        /\ Len(queue) = MaxRequests
        /\ {queue[i].id : i \in DOMAIN queue}
             = {handlers[h].resp.jobID : h \in Created}
        /\ Cardinality({queue[i].id : i \in DOMAIN queue}) = MaxRequests

\* both invocations were in flight together, and the later one pushed first
C13_Witness ==
    /\ Created = 1..MaxRequests
    /\ \A h \in Created : handlers[h].resp.code = StatusCreated
    /\ handlers[1].body = handlers[MaxRequests].body
    /\ queue[1].id = handlers[MaxRequests].resp.jobID
    /\ queue[MaxRequests].id = handlers[1].resp.jobID

\* C14: the job id and the request id of an invocation are generated separately
\* and differ, the request id is no part of the job that is built and queued,
\* and two invocations with the same payload get two distinct job ids and queue
\* two jobs.
C14_IdsAreSeparate ==
    /\ \A h \in 1..MaxRequests :
           /\ handlers[h].job # NoJob =>
                  /\ handlers[h].requestID # ""
                  /\ handlers[h].job.id # handlers[h].requestID
                  /\ handlers[h].job = JobOf(handlers[h].job.id, handlers[h].body.payload)
           /\ handlers[h].resp.code = StatusCreated =>
                  handlers[h].resp.jobID # handlers[h].resp.requestID
    /\ \A i \in DOMAIN queue, h \in 1..MaxRequests :
           /\ queue[i].id # handlers[h].requestID
           /\ DOMAIN queue[i]
                = {"id", "language", "query", "maxDepth", "extractEmail", "geoCoords", "zoom"}
    /\ \A g, h \in 1..MaxRequests :
           /\ g # h
           /\ handlers[g].resp.code = StatusCreated
           /\ handlers[h].resp.code = StatusCreated
           /\ handlers[g].body = handlers[h].body
           => /\ handlers[g].resp.jobID # handlers[h].resp.jobID
              /\ \E i, j \in DOMAIN queue :
                     /\ i # j
                     /\ queue[i].id = handlers[g].resp.jobID
                     /\ queue[j].id = handlers[h].resp.jobID
                     /\ queue[i] # queue[j]

\* the same payload was sent twice, one after the other
C14_Witness ==
    /\ handlers[1].resp.code = StatusCreated
    /\ handlers[2].resp.code = StatusCreated
    /\ handlers[1].body = handlers[2].body
    /\ handlers[1].resp.jobID # handlers[2].resp.jobID
    /\ handlers[1].resp.requestID # handlers[1].resp.jobID
    /\ Len(queue) = 2
    /\ queue[1].id = handlers[1].resp.jobID
    /\ queue[2].id = handlers[2].resp.jobID

\* the dispatch of the seven run modes
Dispatch ==
    { <<RunModeFile, "filerunner.New">>,
      <<RunModeDatabase, "databaserunner.New">>,
      <<RunModeDatabaseProduce, "databaserunner.New">>,
      <<RunModeInstallPlaywright, "installplaywright.New">>,
      <<RunModeWeb, "webrunner.New">>,
      <<RunModeAwsLambda, "lambdaaws.New">>,
      <<RunModeAwsLambdaInvoker, "lambdaaws.NewInvoker">> }

\* C15: the factory is total: each of the seven run modes is dispatched to
\* exactly one constructor and never yields the invalid-run-mode error (it
\* yields the Runner of that constructor, or that constructor's own error and no
\* Runner), and every other value yields the invalid-run-mode error and no
\* Runner.
C15_FactoryTotal ==
    /\ mainPc = "factory" =>
           \A newOk \in BOOLEAN :
               LET r == runnerFactory(cfg, newOk)
               IN  IF cfg \in EnumeratedRunModes
                   THEN /\ Cardinality({d \in Dispatch : d[1] = cfg}) = 1
                        /\ r.err.kind # "ErrInvalidRunMode"
                        /\ newOk => r.err = NoError /\ <<cfg, r.runner>> \in Dispatch
                        /\ ~newOk => r.err = ErrConstructor(cfg) /\ r.runner = "nil"
                   ELSE /\ r.err = ErrInvalidRunMode(cfg)
                        /\ r.runner = "nil"
    /\ FactoryReturned =>
           IF cfg \in EnumeratedRunModes
           THEN /\ factoryErr.kind # "ErrInvalidRunMode"
                /\ factoryErr = NoError => <<cfg, runner>> \in Dispatch
                /\ factoryErr # NoError => runner = "nil"
           ELSE /\ factoryErr.kind = "ErrInvalidRunMode"
                /\ runner = "nil"

C15_Witness ==
    /\ FactoryReturnedRunner
    /\ cfg = RunModeDatabaseProduce
    /\ runner = "databaserunner.New"
    /\ RunnerState = "Running"

\* C16: the checks run in the order method, decoding, validation, Push: a
\* request whose method is not POST is answered 405 whatever its body (malformed,
\* invalid or valid); a POST whose body does not decode is answered 400 "Invalid
\* request body" and never a validation message; a POST whose body decodes but
\* violates a rule is answered 400 with a validation message; none of these
\* reaches Push, and only a POST with a valid body does.
C16_CheckOrder ==
    LET hd == handlers[1]
        invalid == ViolatedMessages(hd.body.payload, 1) # <<>>
    IN  hd.pc # "idle" =>
            /\ hd.method # "POST" =>
                   /\ hd.pc = "done"
                   /\ hd.resp = respondWithError(StatusMethodNotAllowed,
                                                 "Method not allowed", hd.requestID)
                   /\ hd.pushCalls = 0
            /\ hd.method = "POST" /\ ~hd.body.wellFormed =>
                   /\ hd.pc = "done"
                   /\ hd.resp = respondWithError(StatusBadRequest,
                                                 "Invalid request body", hd.requestID)
                   /\ hd.pushCalls = 0
            /\ hd.method = "POST" /\ hd.body.wellFormed /\ invalid =>
                   /\ hd.pc = "done"
                   /\ hd.resp.code = StatusBadRequest
                   /\ hd.resp.message
                        = "validation failed: "
                            \o CommaSeparated(ViolatedMessages(hd.body.payload, 1))
                   /\ hd.pushCalls = 0
            /\ hd.method = "POST" /\ hd.body.wellFormed /\ ~invalid =>
                   /\ hd.job # NoJob
                   /\ hd.pc = "done" =>
                          /\ hd.pushCalls = 1
                          /\ hd.resp.code \in {StatusCreated, StatusInternalServerError}

\* a GET whose body would not even decode is answered 405
C16_Witness ==
    /\ handlers[1].pc = "done"
    /\ handlers[1].method = "GET"
    /\ handlers[1].body = Malformed
    /\ handlers[1].resp.code = StatusMethodNotAllowed
    /\ handlers[1].resp.message = "Method not allowed"
    /\ queue = <<>>

\* C17: the server goroutine never ends the process and main neither shuts it
\* down nor waits for it: the server's position changes only by main starting
\* it and by its own steps, a start error only cancels the root context, the
\* step that ends the process is always a statement of main (once the server
\* goroutine exists: the exit after a factory failure or the exit after Run
\* returned), main's exits are enabled whatever the server does, and after a
\* server failure the exit status of an execution that ran the Runner is 1 when
\* Run returned an error and 0 otherwise.
C17_ServerNeverEndsProcess ==
    /\ [][srvPc' # srvPc =>
            \/ /\ srvPc = "unstarted" /\ srvPc' = "spawned"
               /\ mainPc = "startServer" /\ ~Exited'
            \/ /\ srvPc = "spawned" /\ srvPc' = "serving"
               /\ UNCHANGED <<mainVars, ctx, sigVars, httpVars>>
            \/ /\ srvPc \in {"spawned", "serving"} /\ srvPc' = "done"
               /\ ctx' = Cancel(ctx)
               /\ UNCHANGED <<mainVars, sigVars, httpVars>>]_vars
    /\ [][~Exited /\ Exited' =>
            /\ mainPc \in {"openDb", "factoryErrExit", "exit"}
            /\ srvPc # "unstarted" => mainPc \in {"factoryErrExit", "exit"}
            /\ UNCHANGED <<srvPc, ctx, httpVars>>]_vars
    /\ [](mainPc = "factoryErrExit" => ENABLED MainFactoryErrExit)
    /\ [](mainPc = "exit" => ENABLED MainExit)
    /\ [](Exited /\ srvPc = "done" /\ Count("Run") = 1 =>
             /\ RunReturned
             /\ exitCode = IF runErr THEN 1 ELSE 0)

\* the server failed, which cancelled the root context; Run returned nil and the
\* process exited with status 0
C17_Witness ==
    /\ Exited
    /\ srvPc = "done"
    /\ ctx.cancelled
    /\ sigCount = 0
    /\ RunReturned
    /\ ~runErr
    /\ exitCode = 0

\* the invocation that takes the next request
NextHandler(h) ==
    /\ handlers[h].pc = "idle"
    /\ \A k \in 1..(h - 1) : handlers[k].pc # "idle"

\* C18 (implicit): when the requests arrive after the root context has been
\* cancelled, then as long as the process has not exited (and so also after
\* Close has returned) a serving server accepts a request and a pending Push can
\* succeed: the context Push receives is the request's own, which the
\* cancellation of the root context does not cancel; a request answered 201
\* has its job queued.
C18_ServesAfterCancel ==
    /\ ~RequestContext(ctx).cancelled
    /\ \A h \in 1..MaxRequests :
           /\ handlers[h].pc # "idle" => ctx.cancelled
           /\ ~Exited /\ srvPc = "serving" /\ ctx.cancelled /\ NextHandler(h)
              => ENABLED CreateJobBegin(h, SysRequests)
           /\ ~Exited /\ handlers[h].pc = "push"
              => ENABLED CreateJobPush(h, TRUE)
           /\ handlers[h].resp.code = StatusCreated =>
                  \E i \in DOMAIN queue : queue[i].id = handlers[h].resp.jobID

\* a signal cancelled the root context, then the first request arrived and was
\* answered 201; Close has returned and the process has not exited
C18_Witness ==
    /\ ~Exited
    /\ ctx.cancelled
    /\ sigPc = "done"
    /\ mainPc = "telemetry"
    /\ Count("Close") = 1
    /\ handlers[1].resp.code = StatusCreated
    /\ queue # <<>>
    /\ queue[1].id = handlers[1].resp.jobID

\* C19 (implicit): Close receives the root context as it is at the call: cancelled
\* when the root context is cancelled, which is the case whenever Run returned
\* on a cancellation (by a signal or a server error), and active otherwise; no
\* Close after a cancellation sees an active context; and where a Runner ran,
\* main's own cancel comes only after Close and the telemetry close.
C19_CloseGetsRootContext ==
    /\ [][Count("Close")' # Count("Close") =>
            /\ mainPc = "close"
            /\ Count("Close")' = Count("Close") + 1
            /\ ctx' = ctx
            /\ closeCtx' = IF ctx.cancelled THEN "cancelled" ELSE "active"]_vars
    /\ [][closeCtx' # closeCtx => Count("Close")' # Count("Close")]_vars
    /\ [][mainPc = "running" /\ mainPc' = "close" /\ ctx.cancelled =>
            (ctx').cancelled]_vars
    /\ [](mainPc = "close" => ENABLED MainClose)
    /\ [](closeCtx = "none" <=> Count("Close") = 0)
    /\ [](closeCtx = "cancelled" => ctx.cancelled)
    /\ [](closeCtx = "active" /\ ctx.cancelled =>
             sigPc = "done" \/ srvPc = "done" \/ Count("cancel") = 1)
    /\ [](FactoryReturnedRunner =>
             /\ Precedes("Close", "cancel")
             /\ Precedes("TelemetryClose", "cancel")
             /\ Count("cancel") = 1 =>
                    Count("Close") = 1 /\ Count("TelemetryClose") = 1)

\* a signal cancelled the root context, Run returned, and Close was called with
\* the cancelled context before main's own cancel
C19_Witness ==
    /\ closeCtx = "cancelled"
    /\ sigPc = "done"
    /\ srvPc # "done"
    /\ Count("Close") = 1
    /\ Count("cancel") = 0
    /\ ctx.cancelCalls = 1

\* C20 (implicit): main never returns: every execution that ends, ends in
\* os.Exit or log.Fatal, so the deferred logger.Sync and db.Close are still
\* pending when the process is gone, and the database handle opened at startup is
\* never closed.
C20_DefersNeverRun ==
    /\ db # "closed"
    /\ mainPc # "openDb" => "logger.Sync" \in {defers[i] : i \in DOMAIN defers}
    /\ db = "open" <=> "db.Close" \in {defers[i] : i \in DOMAIN defers}
    /\ db = "open" <=> mainPc # "openDb" /\ ~ExitedByFatal
    /\ Exited =>
           /\ events # <<>>
           /\ events[Len(events)] \in {"Exit", "Fatal"}
           /\ Count("Exit") + Count("Fatal") = 1
           /\ exitCode \in {0, 1}
           /\ defers # <<>>
           /\ ExitedByOsExit => db = "open" /\ defers = <<"logger.Sync", "db.Close">>

\* the process exited with status 0 and left the database handle open
C20_Witness ==
    /\ Exited
    /\ exitCode = 0
    /\ db = "open"
    /\ defers = <<"logger.Sync", "db.Close">>
    /\ Count("Close") = 1

====
